---------------------------- MODULE Spec2Model ----------------------------
(***************************************************************************)
(* Model of manim/renderer/streaming_web_renderer.py: the producer         *)
(* (StreamingWebRenderer with its StreamingWebCamera), the stream document *)
(* it appends to, and the player script the document's header carries      *)
(* (addFrame, renderFrame, the slider / play-pause / restart handlers and  *)
(* the requestAnimationFrame loop).                                        *)
(*                                                                         *)
(* Time is counted in model units; one tick (1 / frame_rate) is dt units,  *)
(* so a duration below one tick is expressible.  Frame positions on the    *)
(* consumer side are 0-based as in the script; TLA+ sequences are 1-based, *)
(* so frames[i] of the script is frames[i + 1] here.                       *)
(***************************************************************************)
EXTENDS Integers, Sequences, FiniteSets, TLC

\* ------------------------------------------------------------------ bounds
MaxFrames == 3      \* records all_frames may hold in a run
MaxTime == 3        \* largest time the caller passes to render
MaxDur == 5         \* largest duration passed to freeze_current_frame
MaxSeals == 2       \* scene_finished calls with an open stream
MaxPending == 2     \* requestAnimationFrame callbacks pending at once
MaxVMs == 2         \* VMobjects handed to the camera in one capture call
MaxSegs == 2        \* whole cubic segments of a primitive that is drawn
MaxPrims == 3       \* primitives the camera's list may hold

\* --------------------------------------------------------------- constants
\* dt = 1 / self.camera.frame_rate, in model units
dt == 2

None == "None"
StreamPath == "stream.html"

Min(a, b) == IF a <= b THEN a ELSE b
Max(a, b) == IF a >= b THEN a ELSE b

\* the rectangle freeze_current_frame passes to last_frame.get("camera", ...);
\* width stands for 8.0 * pixel_width / pixel_height at 16:9, rounded
DefaultCamera == [height |-> 8, width |-> 14, center |-> <<0, 0, 0>>]

\* what get_fill_rgbas() / get_stroke_rgbas() do when called: raise, or
\* return an array of RGBA rows (alpha in percent)
Raises == [raises |-> TRUE, rgbas |-> <<>>]
Rgbas(rows) == [raises |-> FALSE, rgbas |-> rows]

\* a VMobject as the camera reads it: an identity, its points (here how
\* many), its declared style (colours already hex, opacities in percent) and
\* its resolved-colour lookups
VM(id, points, fill_opacity, fill_rgbas, stroke_opacity, stroke_rgbas) ==
    [id |-> id, points |-> points,
     fill_color |-> "#58C4DD", fill_opacity |-> fill_opacity,
     fill_rgbas |-> fill_rgbas,
     stroke_color |-> "#FFFFFF", stroke_width |-> 4,
     stroke_opacity |-> stroke_opacity, stroke_rgbas |-> stroke_rgbas]

\* what a scene presents to render at one tick: the VMobjects of its family
\* and the rectangle of camera.frame
Ticks ==
    { [vmobjects |-> << VM(1, 4, 50, Rgbas(<< <<0, 0, 100, 50>> >>),
                           100, Rgbas(<< <<100, 100, 100, 100>> >>)) >>,
       camera |-> DefaultCamera],
      [vmobjects |-> << VM(2, 0, 100, Rgbas(<<>>), 100, Rgbas(<<>>)),
                        VM(1, 4, 50, Rgbas(<< <<0, 0, 100, 25>> >>),
                           100, Raises),
                        VM(3, 8, 0, Raises, 100, Rgbas(<<>>)) >>,
       camera |-> [height |-> 4, width |-> 7, center |-> <<1, 0, 0>>]] }

VARIABLES
    \* producer: StreamingWebRenderer
    on_frame_callback,  \* TRUE when a callback was passed to __init__
    stream_file,        \* None or the path init_scene opened
    all_frames,         \* self.all_frames
    time,               \* self.time, the renderer's own accumulator
    frame_data,         \* self.camera.frame_data
    aliased,            \* positions in all_frames of the records whose
                        \* mobjects is the very list frame_data is bound to
    vmobjects,          \* the list last handed to the camera
    \* the stream document after its header: the units appended so far
    doc,
    \* what the user callback has been called with, in call order
    cbLog,
    \* consumer: the player script
    readPos,            \* units of doc the page has executed
    frames,             \* let frames = []
    complete,           \* frames.complete
    currentFrame,
    isPlaying,
    sliderMax,          \* slider.max
    sliderValue,        \* slider.value
    pendingLoops,       \* loop callbacks requestAnimationFrame holds
    \* drawVMobject: the primitive being drawn and the calls made on ctx
    mob,
    ctxCalls,
    \* history, for stating the properties
    origin,             \* per record of all_frames: "render" or "hold"
    seekIndex,          \* index of the last scrub behind the tail, -1 if none
    lastOp              \* the operation of the last step and its argument

vars == << on_frame_callback, stream_file, all_frames, time, frame_data,
           aliased, vmobjects, doc, cbLog, readPos, frames, complete,
           currentFrame, isPlaying, sliderMax, sliderValue, pendingLoops,
           mob, ctxCalls, origin, seekIndex, lastOp >>

producerVars == << on_frame_callback, stream_file, all_frames, time,
                   frame_data, aliased, vmobjects, doc, cbLog, origin >>
drawVars == << mob, ctxCalls >>
consumerVars == << readPos, frames, complete, currentFrame, isPlaying,
                   sliderMax, sliderValue, pendingLoops, seekIndex >>

Op(name, arg) == [op |-> name, arg |-> arg]

\* ---------------------------------------------------------------- producer

\* reset_frame_data: self.frame_data = [] binds a new list, which no
\* record shares; the old list is left as it is
ResetFrameDataSkipped(fd, alias) == [data |-> fd, alias |-> alias]
ResetFrameData(fd, alias) == [data |-> <<>>, alias |-> {}]

\* the opacity display_multiple_vectorized_mobjects emits: the alpha of the
\* first RGBA row when the lookup returns one, else the declared opacity
\* (a row without a 4th component raises inside the try)
ResolveOpacityDeclared(declared, lookup) == declared
ResolveOpacity(declared, lookup) ==
    IF lookup.raises THEN declared
    ELSE IF Len(lookup.rgbas) > 0
    THEN IF Len(lookup.rgbas[1]) < 4 THEN declared
         ELSE LET actual == lookup.rgbas[1][4]
              IN  IF actual # declared THEN actual ELSE declared
    ELSE declared

\* the dict appended for one VMobject
Primitive(vm) ==
    [type |-> "VMobject", id |-> vm.id, points |-> vm.points,
     fill_color |-> vm.fill_color,
     fill_opacity |-> ResolveOpacity(vm.fill_opacity, vm.fill_rgbas),
     stroke_color |-> vm.stroke_color,
     stroke_width |-> vm.stroke_width,
     stroke_opacity |-> ResolveOpacity(vm.stroke_opacity, vm.stroke_rgbas)]

\* StreamingWebCamera.display_multiple_vectorized_mobjects: appends one
\* primitive per VMobject that has points, in input order
RECURSIVE Capture(_, _)
Capture(captured, vms) ==
    IF vms = <<>> THEN captured
    ELSE LET vm == Head(vms)
         IN  IF vm.points = 0
             THEN Capture(captured, Tail(vms))
             ELSE Capture(Append(captured, Primitive(vm)), Tail(vms))

\* "frame_index": len(self.all_frames)
NewFrameIndexOffByOne(recs) == Len(recs) + 1
NewFrameIndex(recs) == Len(recs)

\* one appended unit: <script>if(window.addFrame)window.addFrame({json});</script>
NullFrame == [time |-> 0, frame_index |-> -1, mobjects |-> <<>>,
              camera |-> DefaultCamera]
AddFrameUnit(frame) == [kind |-> "addFrame", frame |-> frame]
FooterUnit == [kind |-> "footer", frame |-> NullFrame]

\* _stream_frame: nothing without a stream file, else one unit appended
StreamFrame(file, d, frame) ==
    IF file = None THEN d ELSE Append(d, AddFrameUnit(frame))

\* init_scene: writes the header to a fresh stream.html
InitScene ==
    /\ stream_file = None
    /\ stream_file' = StreamPath
    /\ doc' = <<>>
    /\ lastOp' = Op("init_scene", 0)
    /\ UNCHANGED << on_frame_callback, all_frames, time, frame_data, aliased,
                    vmobjects, cbLog, origin >>
    /\ UNCHANGED << consumerVars, drawVars >>

\* render(scene, time): capture, assemble, append, stream, call back
\* (a list appended to in place changes in every record that shares it)
RenderWith(t, vms, cam) ==
    /\ Len(all_frames) < MaxFrames
    /\ LET reset == ResetFrameData(frame_data, aliased)
           captured == Capture(reset.data, vms)
           shared == [k \in 1..Len(all_frames) |->
                        IF k \in reset.alias
                        THEN [all_frames[k] EXCEPT !.mobjects = captured]
                        ELSE all_frames[k]]
           frame == [time |-> t,
                     frame_index |-> NewFrameIndex(all_frames),
                     mobjects |-> captured,
                     camera |-> cam]
       IN  /\ frame_data' = captured
           /\ vmobjects' = vms
           /\ aliased' = reset.alias \cup {Len(all_frames) + 1}
           /\ all_frames' = Append(shared, frame)
           /\ origin' = Append(origin, "render")
           /\ doc' = StreamFrame(stream_file, doc, frame)
           /\ cbLog' = IF on_frame_callback THEN Append(cbLog, frame) ELSE cbLog
    /\ lastOp' = Op("render", t)
    /\ UNCHANGED << on_frame_callback, stream_file, time >>
    /\ UNCHANGED << consumerVars, drawVars >>

\* the caller passes any time
Render ==
    \E t \in 0..MaxTime, tick \in Ticks :
        RenderWith(t, tick.vmobjects, tick.camera)

\* a caller whose times never fall below the time of a record already made
RenderMono ==
    \E t \in 0..MaxTime, tick \in Ticks :
        /\ \A k \in 1..Len(all_frames) : all_frames[k].time <= t
        /\ RenderWith(t, tick.vmobjects, tick.camera)

\* a caller that renders one fixed scene at a uniform pace
RenderTick ==
    LET tick == CHOOSE x \in Ticks : x.camera = DefaultCamera
    IN  RenderWith(Len(all_frames) * dt, tick.vmobjects, tick.camera)

\* last_frame.get("camera", default)
GetCamera(frame) ==
    IF "camera" \in DOMAIN frame THEN frame.camera ELSE DefaultCamera

\* num_frames = int(duration / dt), duration >= 0
NumFramesCeil(duration) == (duration + dt - 1) \div dt
NumFrames(duration) == duration \div dt

\* the loop of freeze_current_frame: st = <<all_frames, self.time, document>>
\* with i of the num_frames iterations left
RECURSIVE HoldLoop(_, _, _, _, _)
HoldLoop(st, i, mobjects, camera_data, file) ==
    IF i = 0 THEN st
    ELSE LET t == st[2] + dt
             new_frame == [time |-> t,
                           frame_index |-> NewFrameIndex(st[1]),
                           mobjects |-> mobjects,
                           camera |-> camera_data]
         IN  HoldLoop(<< Append(st[1], new_frame), t,
                         StreamFrame(file, st[3], new_frame) >>,
                      i - 1, mobjects, camera_data, file)

\* freeze_current_frame(duration) without its test of self.all_frames
FreezeUnguarded(recs, t, d, file, duration) ==
    LET last_frame == IF recs = <<>> THEN [mobjects |-> <<>>]
                      ELSE recs[Len(recs)]
    IN  HoldLoop(<<recs, t, d>>, NumFrames(duration), last_frame.mobjects,
                 GetCamera(last_frame), file)

\* freeze_current_frame(duration): <<all_frames, self.time, document>> after
FreezeResult(recs, t, d, file, duration) ==
    IF recs # <<>>
    THEN LET last_frame == recs[Len(recs)]
         IN  HoldLoop(<<recs, t, d>>, NumFrames(duration), last_frame.mobjects,
                      GetCamera(last_frame), file)
    ELSE <<recs, t, d>>

FreezeFor(duration) ==
    /\ Len(all_frames) + NumFrames(duration) <= MaxFrames
    /\ LET res == FreezeResult(all_frames, time, doc, stream_file, duration)
       IN  /\ all_frames' = res[1]
           /\ time' = res[2]
           /\ doc' = res[3]
           /\ origin' = origin \o [k \in 1..(Len(res[1]) - Len(all_frames)) |-> "hold"]
           \* "mobjects": frame_data is the last frame's own list
           /\ aliased' = IF Len(all_frames) \in aliased
                         THEN aliased \cup ((Len(all_frames) + 1)..Len(res[1]))
                         ELSE aliased
    /\ lastOp' = Op("freeze", duration)
    /\ UNCHANGED << on_frame_callback, stream_file, frame_data, vmobjects,
                    cbLog >>
    /\ UNCHANGED << consumerVars, drawVars >>

\* any duration, whole ticks or not
Freeze ==
    \E duration \in 0..MaxDur : FreezeFor(duration)

\* a wait of one or two whole ticks
FreezeTicks ==
    \E n \in 1..2 : FreezeFor(n * dt)

\* scene_finished: appends the footer when a stream is open
SceneFinished ==
    /\ Cardinality({i \in 1..Len(doc) : doc[i].kind = "footer"}) < MaxSeals
    /\ doc' = IF stream_file = None THEN doc ELSE Append(doc, FooterUnit)
    /\ lastOp' = Op("scene_finished", 0)
    /\ UNCHANGED << on_frame_callback, stream_file, all_frames, time,
                    frame_data, aliased, vmobjects, cbLog, origin >>
    /\ UNCHANGED << consumerVars, drawVars >>

\* no primitive is being drawn
NoMob == [points |-> <<>>, stroke_width |-> 0]

\* after StreamingWebRenderer.__init__ (self.time is 0 from the base
\* renderer's constructor) and before any page exists
Init ==
    /\ on_frame_callback \in BOOLEAN
    /\ stream_file = None
    /\ all_frames = <<>>
    /\ time = 0
    /\ frame_data = <<>>
    /\ aliased = {}
    /\ vmobjects = <<>>
    /\ doc = <<>>
    /\ cbLog = <<>>
    /\ readPos = 0
    /\ frames = <<>>
    /\ complete = FALSE
    /\ currentFrame = 0
    /\ isPlaying = TRUE
    /\ sliderMax = 0
    /\ sliderValue = 0
    /\ pendingLoops = 1
    /\ mob = NoMob
    /\ ctxCalls = <<>>
    /\ origin = <<>>
    /\ seekIndex = -1
    /\ lastOp = Op("init", 0)

\* ---------------------------------------------------------------- consumer
\* The page exists once init_scene has written the header; its script then
\* ran to the end: frames = [], currentFrame = 0, isPlaying = true, and the
\* first loop() call left one callback with requestAnimationFrame.

PageLoaded == stream_file # None

\* renderFrame(index): <<currentFrame, slider.value>> after the call
RenderFrameResult(fr, index, cur, sval) ==
    IF index >= 0 /\ index < Len(fr) THEN <<index, index>> ELSE <<cur, sval>>

\* addFrame's test: isPlaying && currentFrame >= frames.length - 2
ShouldFollowWhenPaused(playing, cur, len) == cur >= len - 2
ShouldFollow(playing, cur, len) == playing /\ cur >= len - 2

\* window.addFrame(frame), run by the next addFrame unit of the document
AddFrame ==
    /\ PageLoaded
    /\ readPos < Len(doc)
    /\ doc[readPos + 1].kind = "addFrame"
    /\ readPos' = readPos + 1
    /\ frames' = Append(frames, doc[readPos + 1].frame)
    /\ sliderMax' = Len(frames') - 1
    /\ LET len == Len(frames')
           rf == RenderFrameResult(frames', len - 1, len - 1, sliderValue)
       IN  IF ShouldFollow(isPlaying, currentFrame, len)
           THEN currentFrame' = rf[1] /\ sliderValue' = rf[2]
           ELSE UNCHANGED << currentFrame, sliderValue >>
    /\ lastOp' = Op("addFrame", currentFrame)
    /\ UNCHANGED << complete, isPlaying, pendingLoops, seekIndex >>
    /\ UNCHANGED << producerVars, drawVars >>

\* the footer's script: frames.complete = true
Footer ==
    /\ PageLoaded
    /\ readPos < Len(doc)
    /\ doc[readPos + 1].kind = "footer"
    /\ readPos' = readPos + 1
    /\ complete' = TRUE
    /\ lastOp' = Op("footer", 0)
    /\ UNCHANGED << frames, currentFrame, isPlaying, sliderMax, sliderValue,
                    pendingLoops, seekIndex >>
    /\ UNCHANGED << producerVars, drawVars >>

\* the value an <input type=range min=0 max=slider.max> takes for a request
SliderValue(requested, max) == Max(0, Min(requested, max))

\* slider 'input': currentFrame = parseInt(e.target.value); renderFrame(...)
SliderInput ==
    \E requested \in 0..MaxFrames :
        /\ PageLoaded
        /\ LET value == SliderValue(requested, sliderMax)
               rf == RenderFrameResult(frames, value, value, value)
           IN  /\ currentFrame' = rf[1]
               /\ sliderValue' = rf[2]
               /\ seekIndex' = IF value < Len(frames) - 2 THEN value ELSE -1
        /\ lastOp' = Op("scrub", requested)
        /\ UNCHANGED << readPos, frames, complete, isPlaying, sliderMax,
                        pendingLoops >>
        /\ UNCHANGED << producerVars, drawVars >>

\* playPause 'click'; on play, loop() runs at once with elapsed = 0 and only
\* requests the next callback
PlayPause ==
    /\ PageLoaded
    /\ isPlaying' = ~isPlaying
    /\ IF isPlaying'
       THEN pendingLoops < MaxPending /\ pendingLoops' = pendingLoops + 1
       ELSE pendingLoops' = pendingLoops
    /\ seekIndex' = -1
    /\ lastOp' = Op("playPause", 0)
    /\ UNCHANGED << readPos, frames, complete, currentFrame, sliderMax,
                    sliderValue >>
    /\ UNCHANGED << producerVars, drawVars >>

\* restart 'click': currentFrame = 0; renderFrame(0)
Restart ==
    /\ PageLoaded
    /\ LET rf == RenderFrameResult(frames, 0, 0, sliderValue)
       IN  currentFrame' = rf[1] /\ sliderValue' = rf[2]
    /\ seekIndex' = -1
    /\ lastOp' = Op("restart", 0)
    /\ UNCHANGED << readPos, frames, complete, isPlaying, sliderMax,
                    pendingLoops >>
    /\ UNCHANGED << producerVars, drawVars >>

\* loop's test before currentFrame++
CanAdvanceOffByOne(cur, len) == cur <= len - 1
CanAdvanceStopsShort(cur, len) == cur < len - 2
CanAdvance(cur, len) == cur < len - 1

\* one pending loop callback runs, with elapsed >= 16.67 or not; lastOp
\* notes with 1 the run that ends playback
LoopCallbackWith(elapsed) ==
    /\ PageLoaded
    /\ pendingLoops > 0
    /\ IF ~isPlaying
       THEN /\ pendingLoops' = pendingLoops - 1
            /\ lastOp' = Op("loop", 0)
            /\ UNCHANGED << currentFrame, sliderValue, isPlaying >>
       ELSE IF elapsed /\ CanAdvance(currentFrame, Len(frames))
       THEN /\ LET rf == RenderFrameResult(frames, currentFrame + 1,
                                           currentFrame + 1, sliderValue)
               IN  currentFrame' = rf[1] /\ sliderValue' = rf[2]
            /\ lastOp' = Op("loop", 0)
            /\ UNCHANGED << isPlaying, pendingLoops >>
       ELSE IF elapsed /\ complete
       THEN /\ isPlaying' = FALSE
            /\ pendingLoops' = pendingLoops - 1
            /\ lastOp' = Op("loop", 1)
            /\ UNCHANGED << currentFrame, sliderValue >>
       ELSE /\ lastOp' = Op("loop", 0)
            /\ UNCHANGED << currentFrame, sliderValue, isPlaying,
                            pendingLoops >>
    /\ UNCHANGED << readPos, frames, complete, sliderMax, seekIndex >>
    /\ UNCHANGED << producerVars, drawVars >>

LoopCallback ==
    \E elapsed \in BOOLEAN : LoopCallbackWith(elapsed)

\* ---------------------------------------------------------- specifications
\* Scene.__init__ calls init_scene as soon as the renderer is constructed
\* (here with the default on_frame_callback=None): the state in which the
\* page can first be opened
InitLive ==
    /\ on_frame_callback = FALSE
    /\ stream_file = StreamPath
    /\ all_frames = <<>>
    /\ time = 0
    /\ frame_data = <<>>
    /\ aliased = {}
    /\ vmobjects = <<>>
    /\ doc = <<>>
    /\ cbLog = <<>>
    /\ readPos = 0
    /\ frames = <<>>
    /\ complete = FALSE
    /\ currentFrame = 0
    /\ isPlaying = TRUE
    /\ sliderMax = 0
    /\ sliderValue = 0
    /\ pendingLoops = 1
    /\ mob = NoMob
    /\ ctxCalls = <<>>
    /\ origin = <<>>
    /\ seekIndex = -1
    /\ lastOp = Op("init_scene", 0)

\* producer and consumer together from there, the scene ticking at a
\* uniform pace
Next ==
    \/ RenderTick
    \/ FreezeTicks
    \/ SceneFinished
    \/ AddFrame
    \/ Footer
    \/ SliderInput
    \/ PlayPause
    \/ Restart
    \/ LoopCallback

Spec == InitLive /\ [][Next]_vars

\* the same, the viewer leaving the controls alone once the completion
\* marker has arrived, and the browser running a pending loop callback again
\* and again while time passes (elapsed grows until it reaches 16.67)
ManualAction ==
    \/ SliderInput
    \/ PlayPause
    \/ Restart

NextPlay ==
    \/ RenderTick
    \/ FreezeTicks
    \/ SceneFinished
    \/ AddFrame
    \/ Footer
    \/ (~complete /\ ManualAction)
    \/ LoopCallback

SpecPlay ==
    InitLive /\ [][NextPlay]_vars /\ WF_vars(LoopCallbackWith(TRUE))

\* the renderer and its camera as a caller may drive them after init_scene:
\* renders of either scene at a uniform pace, waits, scene_finished, and
\* capture calls made on the camera directly
RenderScene ==
    \E tick \in Ticks :
        RenderWith(Len(all_frames) * dt, tick.vmobjects, tick.camera)

\* camera.display_multiple_vectorized_mobjects(vmobjects, None) outside
\* render: appends to the list frame_data is bound to, in place
CameraCapture ==
    \E tick \in Ticks :
        LET captured == Capture(frame_data, tick.vmobjects)
        IN  /\ Len(captured) <= MaxPrims
            /\ frame_data' = captured
            /\ vmobjects' = tick.vmobjects
            /\ all_frames' = [k \in 1..Len(all_frames) |->
                                 IF k \in aliased
                                 THEN [all_frames[k] EXCEPT
                                           !.mobjects = captured]
                                 ELSE all_frames[k]]
            /\ lastOp' = Op("capture", 0)
            /\ UNCHANGED << on_frame_callback, stream_file, time, aliased,
                            doc, cbLog, origin >>
            /\ UNCHANGED << consumerVars, drawVars >>

NextRecords ==
    \/ RenderScene
    \/ FreezeTicks
    \/ SceneFinished
    \/ CameraCapture

SpecRecords == InitLive /\ [][NextRecords]_vars

\* ---- writes that fail ----

\* what open(..., 'a') / f.write raising leaves of the unit in the document:
\* nothing, or a part of it
TornUnit == [kind |-> "torn", frame |-> NullFrame]
FailedWrite(d) == { d, Append(d, TornUnit) }

\* render past a raise at line 186: lines 189-190 do not run
CallbackDespiteRaise(callback, log, frame) ==
    IF callback THEN Append(log, frame) ELSE log
CallbackAfterRaise(callback, log, frame) == log

\* render(scene, time) whose _stream_frame raises: the record is already in
\* all_frames, the exception leaves render
RenderRaises ==
    \E tick \in Ticks :
        /\ stream_file # None
        /\ Len(all_frames) < MaxFrames
        /\ LET reset == ResetFrameData(frame_data, aliased)
               captured == Capture(reset.data, tick.vmobjects)
               frame == [time |-> Len(all_frames) * dt,
                         frame_index |-> NewFrameIndex(all_frames),
                         mobjects |-> captured,
                         camera |-> tick.camera]
           IN  /\ frame_data' = captured
               /\ vmobjects' = tick.vmobjects
               /\ aliased' = reset.alias \cup {Len(all_frames) + 1}
               /\ all_frames' = Append(all_frames, frame)
               /\ origin' = Append(origin, "render")
               /\ doc' \in FailedWrite(doc)
               /\ cbLog' = CallbackAfterRaise(on_frame_callback, cbLog, frame)
        /\ lastOp' = Op("render_raised", 0)
        /\ UNCHANGED << on_frame_callback, stream_file, time >>
        /\ UNCHANGED << consumerVars, drawVars >>

\* freeze_current_frame(duration) whose failAt-th _stream_frame raises: the
\* iterations before it ran whole, the failing one up to its append, the
\* rest (counted in lastOp) not at all
FreezeRaises ==
    \E n \in 1..2, failAt \in 1..2 :
        /\ stream_file # None
        /\ all_frames # <<>>
        /\ failAt <= NumFrames(n * dt)
        /\ Len(all_frames) + failAt <= MaxFrames
        /\ LET last_frame == all_frames[Len(all_frames)]
               done == HoldLoop(<<all_frames, time, doc>>, failAt - 1,
                                last_frame.mobjects, GetCamera(last_frame),
                                stream_file)
               new_frame == [time |-> done[2] + dt,
                             frame_index |-> NewFrameIndex(done[1]),
                             mobjects |-> last_frame.mobjects,
                             camera |-> GetCamera(last_frame)]
           IN  /\ all_frames' = Append(done[1], new_frame)
               /\ time' = done[2] + dt
               /\ doc' \in FailedWrite(done[3])
               /\ origin' = origin \o [k \in 1..failAt |-> "hold"]
               /\ aliased' = IF Len(all_frames) \in aliased
                             THEN aliased \cup ((Len(all_frames) + 1)
                                                   ..(Len(all_frames) + failAt))
                             ELSE aliased
        /\ lastOp' = Op("freeze_raised", NumFrames(n * dt) - failAt)
        /\ UNCHANGED << on_frame_callback, stream_file, frame_data, vmobjects,
                        cbLog >>
        /\ UNCHANGED << consumerVars, drawVars >>

\* the producer with a destination that may fail, the caller going on after
\* a failure or not
NextFail ==
    \/ InitScene
    \/ RenderScene
    \/ FreezeTicks
    \/ SceneFinished
    \/ RenderRaises
    \/ FreezeRaises

SpecFail == Init /\ [][NextFail]_vars

\* the producer alone from its construction while it makes frames, called
\* with any times and scenes
NextProducer ==
    \/ InitScene
    \/ Render
    \/ Freeze

SpecProducer == Init /\ [][NextProducer]_vars

\* the producer alone, its caller passing non-decreasing times
NextMono ==
    \/ InitScene
    \/ RenderMono
    \/ Freeze

SpecMono == Init /\ [][NextMono]_vars

\* ---- the camera's capture on its own ----

\* the lookups a VMobject may answer with: raising, no row, one row, a row
\* without an alpha component, two rows
Lookups ==
    { Raises, Rgbas(<<>>), Rgbas(<< <<0, 0, 100, 25>> >>),
      Rgbas(<< <<0, 0, 100>> >>),
      Rgbas(<< <<0, 0, 100, 0>>, <<0, 0, 100, 75>> >>) }

\* the VMobjects handed to the camera: with points and any pair of lookups,
\* or without points
Styles ==
    { st \in [points : {0, 4}, fill_rgbas : Lookups, stroke_rgbas : Lookups] :
        st.points = 4 \/ (st.fill_rgbas = Raises /\ st.stroke_rgbas = Raises) }

\* the lists of at most MaxVMs VMobjects
Scenes ==
    UNION { { [i \in 1..n |-> VM(i, st[i].points, 50, st[i].fill_rgbas,
                                 100, st[i].stroke_rgbas)] :
              st \in [1..n -> Styles] } : n \in 0..MaxVMs }

\* a camera just constructed, about to be handed one list of VMobjects
InitCapture ==
    /\ on_frame_callback = FALSE
    /\ stream_file = None
    /\ all_frames = <<>>
    /\ time = 0
    /\ frame_data = <<>>
    /\ aliased = {}
    /\ vmobjects \in Scenes
    /\ doc = <<>>
    /\ cbLog = <<>>
    /\ readPos = 0
    /\ frames = <<>>
    /\ complete = FALSE
    /\ currentFrame = 0
    /\ isPlaying = TRUE
    /\ sliderMax = 0
    /\ sliderValue = 0
    /\ pendingLoops = 1
    /\ mob = NoMob
    /\ ctxCalls = <<>>
    /\ origin = <<>>
    /\ seekIndex = -1
    /\ lastOp = Op("init", 0)

\* camera.display_multiple_vectorized_mobjects(vmobjects, pixel_array)
CaptureCall ==
    /\ lastOp.op = "init"
    /\ frame_data' = Capture(frame_data, vmobjects)
    /\ lastOp' = Op("capture", 0)
    /\ UNCHANGED << on_frame_callback, stream_file, all_frames, time, aliased,
                    vmobjects, doc, cbLog, origin >>
    /\ UNCHANGED << consumerVars, drawVars >>

NextCapture ==
    CaptureCall

SpecCapture == InitCapture /\ [][NextCapture]_vars

\* ---- drawVMobject ----

\* coordinates are counted in units of 1e-7 scene units
Scale == 10000000
\* const atol = 1e-6
atol == 10
\* const rtol = 1e-5, as the divisor 1 / rtol
rtolInv == 100000
\* the 0.15 of pointsClose
closeTol == 1500000
\* step of the integer arithmetic of pointsClose
Kilo == 1000

Abs(x) == IF x < 0 THEN -x ELSE x

\* pts[n], n counted from 0
Pt(pts, n) == pts[n + 1]

\* pointsEqual: |p1 - p2| <= atol + rtol * |p2| on both axes (the left side
\* is a whole number of units, so rounding the right side down is exact)
PointsEqualFirstAxis(p1, p2) ==
    Abs(p1[1] - p2[1]) <= atol + (Abs(p2[1]) \div rtolInv)
PointsEqual(p1, p2) ==
    /\ Abs(p1[1] - p2[1]) <= atol + (Abs(p2[1]) \div rtolInv)
    /\ Abs(p1[2] - p2[2]) <= atol + (Abs(p2[2]) \div rtolInv)

\* pointsClose: sqrt(dx*dx + dy*dy) < 0.15, computed exactly: beyond the
\* tolerance on one axis the distance is beyond it too; below, dx*dx + dy*dy
\* is compared in parts of Kilo so that no product leaves 32 bits
PointsCloseBox(p1, p2) ==
    Abs(p1[1] - p2[1]) < closeTol /\ Abs(p1[2] - p2[2]) < closeTol
PointsClose(p1, p2) ==
    LET dx == Abs(p1[1] - p2[1])
        dy == Abs(p1[2] - p2[2])
    IN  /\ dx < closeTol
        /\ dy < closeTol
        /\ LET a1 == dx \div Kilo
               b1 == dx % Kilo
               a2 == dy \div Kilo
               b2 == dy % Kilo
               hi == a1 * a1 + a2 * a2
               mid == 2 * (a1 * b1 + a2 * b2)
               lo == b1 * b1 + b2 * b2
               tol == closeTol \div Kilo
           IN  hi + ((mid + (lo \div Kilo)) \div Kilo) < tol * tol

\* breakIndices, from the push of n on: for (n = 4; n < pts.length; n += 4)
RECURSIVE BreakScan(_, _, _)
BreakScan(pts, n, breakIndices) ==
    IF n < Len(pts)
    THEN BreakScan(pts, n + 4,
                   IF ~PointsEqual(Pt(pts, n - 1), Pt(pts, n))
                   THEN Append(breakIndices, n)
                   ELSE breakIndices)
    ELSE Append(breakIndices, Len(pts))
BreakIndices(pts) == BreakScan(pts, 4, <<0>>)

\* a call on ctx while the subpath pts[start..end-1] is drawn; at is the
\* index of the point the call goes to
Call(name, start, end, at) ==
    [call |-> name, start |-> start, end |-> end, at |-> at]

\* for (i = start; i + 3 < end; i += 4) ctx.bezierCurveTo(...)
RECURSIVE Curves(_, _, _, _)
Curves(calls, start, end, i) ==
    IF i + 3 < end
    THEN Curves(Append(calls, Call("bezierCurveTo", start, end, i + 3)),
                start, end, i + 4)
    ELSE calls

\* the body of the subpath loop for one subpath
DrawSubpath(m, start, end) ==
    IF end - start < 4 THEN <<>>
    ELSE Curves(<< Call("beginPath", start, end, start),
                   Call("moveTo", start, end, start) >>, start, end, start)
         \o (IF PointsClose(Pt(m.points, start), Pt(m.points, end - 1))
             THEN << Call("closePath", start, end, start) >>
             ELSE <<>>)
         \o << Call("fill", start, end, start) >>
         \o (IF m.stroke_width > 0
             THEN << Call("stroke", start, end, start) >>
             ELSE <<>>)

\* for (subIdx = 0; subIdx < breakIndices.length - 1; subIdx++)
RECURSIVE DrawSubpaths(_, _, _, _)
DrawSubpaths(calls, m, breakIndices, subIdx) ==
    IF subIdx < Len(breakIndices) - 1
    THEN DrawSubpaths(calls \o DrawSubpath(m, Pt(breakIndices, subIdx),
                                           Pt(breakIndices, subIdx + 1)),
                      m, breakIndices, subIdx + 1)
    ELSE calls

\* drawVMobject(mob, camera): the calls it makes on ctx
DrawVMobject(m) ==
    IF Len(m.points) < 4 THEN <<>>
    ELSE DrawSubpaths(<<>>, m, BreakIndices(m.points), 0)

\* cubic segments (anchor, handle, handle, anchor) a primitive is made of
Segments ==
    { << <<0, 0>>, <<Scale, 0>>, <<Scale, Scale>>, <<0, Scale>> >>,
      << <<0, Scale + 1>>, <<2 * Scale, 0>>, <<2 * Scale, Scale>>,
         <<Scale, Scale>> >>,
      << <<Scale \div 100, Scale>>, <<2 * Scale, 0>>, <<2 * Scale, Scale>>,
         <<Scale, Scale>> >>,
      << <<0, Scale + (Scale \div 100)>>, <<2 * Scale, 0>>,
         <<2 * Scale, Scale>>, <<Scale, Scale>> >>,
      << <<0, Scale>>, <<Scale, Scale>>, <<Scale, 0>>,
         <<14 * (Scale \div 100), 0>> >>,
      << <<0, Scale>>, <<Scale, Scale>>, <<Scale, 0>>,
         <<15 * (Scale \div 100), 0>> >>,
      << <<0, Scale>>, <<Scale, Scale>>, <<Scale, 0>>,
         <<16 * (Scale \div 100), 0>> >>,
      << <<0, Scale>>, <<Scale, Scale>>, <<Scale, 0>>,
         <<11 * (Scale \div 100), 11 * (Scale \div 100)>> >>,
      << <<0, 0>>, <<Scale, 0>>, <<Scale, Scale>>, <<100 * Scale, 0>> >>,
      << <<100 * Scale + (Scale \div 2000), 0>>, <<2 * Scale, 0>>,
         <<2 * Scale, Scale>>, <<Scale, Scale>> >> }

\* points left over after the last whole segment
Tails ==
    { <<>> } \cup
    UNION { { <<t>>, <<t, t>>, <<t, t, t>> } :
            t \in { <<0, Scale>>, <<5 * Scale, 5 * Scale>> } }

RECURSIVE Flatten(_)
Flatten(segs) == IF segs = <<>> THEN <<>> ELSE Head(segs) \o Flatten(Tail(segs))

\* the primitives drawVMobject is called with: at most MaxSegs segments and
\* a tail, with or without a stroke
Mobs ==
    { [points |-> Flatten(segs) \o tail, stroke_width |-> w] :
        segs \in UNION { [1..n -> Segments] : n \in 0..MaxSegs },
        tail \in Tails, w \in {0, 4} }

\* the page before a primitive is drawn
InitDraw ==
    /\ on_frame_callback = FALSE
    /\ stream_file = None
    /\ all_frames = <<>>
    /\ time = 0
    /\ frame_data = <<>>
    /\ aliased = {}
    /\ vmobjects = <<>>
    /\ doc = <<>>
    /\ cbLog = <<>>
    /\ readPos = 0
    /\ frames = <<>>
    /\ complete = FALSE
    /\ currentFrame = 0
    /\ isPlaying = TRUE
    /\ sliderMax = 0
    /\ sliderValue = 0
    /\ pendingLoops = 1
    /\ mob \in Mobs
    /\ ctxCalls = <<>>
    /\ origin = <<>>
    /\ seekIndex = -1
    /\ lastOp = Op("init", 0)

\* drawVMobject(mob, camera)
Draw ==
    /\ lastOp.op = "init"
    /\ ctxCalls' = DrawVMobject(mob)
    /\ lastOp' = Op("drawVMobject", 0)
    /\ UNCHANGED mob
    /\ UNCHANGED << producerVars, consumerVars >>

NextDraw ==
    Draw

SpecDraw == InitDraw /\ [][NextDraw]_vars

\* ------------------------------------------------------------- properties

\* C1: the k-th record of all_frames (k from 0) has frame_index = k, whatever
\* the order of render and freeze_current_frame calls.
C1_FrameIndexIsPosition ==
    \A k \in 1..Len(all_frames) : all_frames[k].frame_index = k - 1

\* a hold frame between two rendered ticks
C1_Witness ==
    /\ Len(all_frames) >= 3
    /\ origin[1] = "render" /\ origin[2] = "hold" /\ origin[3] = "render"

\* C2: consecutive records of all_frames have non-decreasing times.
C2_TimeNonDecreasing ==
    \A k \in 1..(Len(all_frames) - 1) :
        all_frames[k].time <= all_frames[k + 1].time

\* C3: after init_scene the document is the header, the addFrame units of a
\* prefix of all_frames in order, and at most a final completion marker; the
\* consumer's frames[i] has frame_index i, and once it sees frames.complete
\* it has been given every frame the producer made.
C3_PrefixDocument ==
    stream_file # None =>
        /\ \E k \in 0..Len(all_frames), sealed \in BOOLEAN :
               doc = [i \in 1..k |-> AddFrameUnit(all_frames[i])]
                     \o (IF sealed THEN <<FooterUnit>> ELSE <<>>)
        /\ \A i \in 1..Len(frames) : frames[i].frame_index = i - 1
        /\ complete => frames = all_frames

\* C4: the document holds at most one completion marker and no frame unit
\* follows it: a marker is always the document's last unit.
C4_SealedOnceAfterLastAppend ==
    \A i \in 1..Len(doc) : doc[i].kind = "footer" => i = Len(doc)

\* C5: with a callback supplied, the callback has been called exactly once
\* with every record of all_frames, rendered and hold alike, in order.
C5_CallbackSeesEveryFrame ==
    on_frame_callback => cbLog = all_frames

\* C6: when addFrame delivers a frame, a playing viewer on the previous tail
\* moves to the new tail; a viewer further back, or a paused one, stays where
\* it is, and only the buffer and the scrub bound grow.
C6_AutoFollow ==
    [][ Len(frames') = Len(frames) + 1 =>
          /\ sliderMax' = Len(frames') - 1
          /\ (isPlaying /\ Len(frames) >= 1 /\ currentFrame = Len(frames) - 1)
                => currentFrame' = Len(frames') - 1
          /\ (Len(frames) >= 1 /\ (currentFrame < Len(frames) - 1 \/ ~isPlaying))
                => (currentFrame' = currentFrame /\ isPlaying' = isPlaying)
      ]_vars

\* a playing viewer that was on the tail has just been moved to the new one
C6_Witness ==
    /\ lastOp.op = "addFrame"
    /\ isPlaying
    /\ Len(frames) >= 3
    /\ lastOp.arg = Len(frames) - 2
    /\ currentFrame = Len(frames) - 1

\* C7: after a scrub to an index more than one frame behind the latest
\* buffered frame, the position stays at that index until the viewer acts
\* again (play/pause, another scrub, restart).
C7_SeekingHolds ==
    seekIndex # -1 => currentFrame = seekIndex

\* C8: the scrub bound is max(0, frames.length - 1), the position lies in
\* 0..max(0, frames.length - 1), and a seek beyond the tail ends at the tail.
C8_ScrubBounds ==
    LET tail == Max(0, Len(frames) - 1)
    IN  /\ sliderMax = tail
        /\ 0 <= currentFrame /\ currentFrame <= tail
        /\ (lastOp.op = "scrub" /\ lastOp.arg > tail) => currentFrame = tail

\* a seek beyond the tail of a buffer of several frames
C8_Witness ==
    /\ lastOp.op = "scrub"
    /\ Len(frames) >= 2
    /\ lastOp.arg > Len(frames) - 1
    /\ currentFrame = Len(frames) - 1

\* C9: freeze_current_frame(duration) on a non-empty all_frames appends
\* exactly floor(duration / dt) records (15 for 15 ticks, none below one
\* tick), each with the last frame's mobjects and camera, frame_index
\* continuing the sequence, hold times one tick apart.
C9_HoldFrames ==
    [][ (lastOp'.op = "freeze" /\ all_frames # <<>>) =>
          LET old == Len(all_frames)
              n == Len(all_frames') - old
              last == all_frames[old]
          IN  /\ n >= 0
              /\ n * dt <= lastOp'.arg /\ lastOp'.arg < (n + 1) * dt
              /\ NumFrames(15 * dt) = 15 /\ NumFrames(dt - 1) = 0
              /\ \A i \in 1..old : all_frames'[i] = all_frames[i]
              /\ \A j \in 1..n :
                    /\ all_frames'[old + j].mobjects = last.mobjects
                    /\ all_frames'[old + j].camera = last.camera
                    /\ all_frames'[old + j].frame_index = old + j - 1
              /\ \A j \in 2..n :
                    all_frames'[old + j].time = all_frames'[old + j - 1].time + dt
      ]_vars

\* a hold of two ticks and a half after a rendered frame of three VMobjects
C9_Witness ==
    /\ lastOp.op = "freeze"
    /\ lastOp.arg = 2 * dt + 1
    /\ Len(all_frames) >= 3
    /\ origin[Len(origin) - 2] = "render"
    /\ origin[Len(origin) - 1] = "hold"
    /\ origin[Len(origin)] = "hold"
    /\ Len(all_frames[Len(all_frames)].mobjects) = 2
    /\ all_frames[Len(all_frames)].camera # DefaultCamera

\* C10 as claimed: on an empty all_frames freeze_current_frame still makes
\* floor(duration / dt) hold records, with the default camera rectangle.
C10_EmptyFreezeSynthesizes ==
    [][ (lastOp'.op = "freeze" /\ all_frames = <<>>) =>
          /\ Len(all_frames') = NumFrames(lastOp'.arg)
          /\ \A j \in 1..Len(all_frames') :
                all_frames'[j].camera = DefaultCamera
      ]_vars

\* C10 as amended: on an empty all_frames freeze_current_frame appends no
\* record, writes nothing to the stream and leaves self.time as it was.
C10_EmptyFreezeAppendsNothing ==
    [][ (lastOp'.op = "freeze" /\ all_frames = <<>>) =>
          /\ all_frames' = <<>>
          /\ doc' = doc
          /\ time' = time
          /\ cbLog' = cbLog
      ]_vars

\* a freeze of at least one tick on an open stream with no frame yet
C10_Witness ==
    /\ lastOp.op = "freeze"
    /\ lastOp.arg >= dt
    /\ all_frames = <<>>
    /\ stream_file # None

\* C11: the frame a render call has just appended lists exactly the
\* VMobjects handed to the camera that have points, in the order they were
\* handed over, and nothing captured at an earlier tick; no record of
\* all_frames, rendered or hold, lists a primitive without points.
C11_CapturesExactlyInput ==
    /\ lastOp.op = "render" =>
           LET kept == SelectSeq(vmobjects, LAMBDA vm : vm.points # 0)
               rec == all_frames[Len(all_frames)].mobjects
           IN  /\ Len(rec) = Len(kept)
               /\ \A i \in 1..Len(rec) :
                      rec[i].id = kept[i].id /\ rec[i].points = kept[i].points
    /\ \A k \in 1..Len(all_frames) :
           \A i \in 1..Len(all_frames[k].mobjects) :
               all_frames[k].mobjects[i].points # 0

\* a tick with an empty VMobject among three was rendered right after a tick
\* that captured something else
C11_Witness ==
    /\ lastOp.op = "render"
    /\ Len(all_frames) >= 2
    /\ origin[Len(all_frames) - 1] = "render"
    /\ all_frames[Len(all_frames) - 1].mobjects # <<>>
    /\ Len(vmobjects) = 3
    /\ \E i \in 1..Len(vmobjects) : vmobjects[i].points = 0
    /\ Len(all_frames[Len(all_frames)].mobjects) = 2
    /\ all_frames[Len(all_frames)].mobjects
           # all_frames[Len(all_frames) - 1].mobjects

\* C12: after a capture, every VMobject with points has its primitive, and
\* the primitive's fill opacity is the alpha of the first row of the fill
\* lookup when the lookup returns a row with an alpha, else the declared fill
\* opacity; the same for stroke, each side on its own lookup. A lookup that
\* raises neither stops the capture nor drops the primitive.
C12_ResolvedOpacity ==
    lastOp.op = "capture" =>
        LET kept == SelectSeq(vmobjects, LAMBDA vm : vm.points # 0)
            Expected(declared, lookup) ==
                IF /\ ~lookup.raises
                   /\ Len(lookup.rgbas) > 0
                   /\ Len(lookup.rgbas[1]) >= 4
                THEN lookup.rgbas[1][4]
                ELSE declared
        IN  /\ Len(frame_data) = Len(kept)
            /\ \A i \in 1..Len(kept) :
                   /\ frame_data[i].id = kept[i].id
                   /\ frame_data[i].fill_opacity
                          = Expected(kept[i].fill_opacity, kept[i].fill_rgbas)
                   /\ frame_data[i].stroke_opacity
                          = Expected(kept[i].stroke_opacity,
                                     kept[i].stroke_rgbas)

\* a VMobject whose fill lookup raised and whose stroke lookup returned a row
\* was captured: declared fill opacity, resolved stroke opacity
C12_Witness ==
    /\ lastOp.op = "capture"
    /\ \E i \in 1..Len(vmobjects) :
           /\ vmobjects[i].points # 0
           /\ vmobjects[i].fill_rgbas.raises
           /\ vmobjects[i].stroke_rgbas = Rgbas(<< <<0, 0, 100, 25>> >>)
           /\ \E j \in 1..Len(frame_data) :
                  /\ frame_data[j].id = vmobjects[i].id
                  /\ frame_data[j].fill_opacity = 50
                  /\ frame_data[j].stroke_opacity = 25

\* C13: drawing a primitive whose point count is below 4 or not a multiple
\* of 4 makes no call on the canvas context.
C13_MalformedIsNoOp ==
    (/\ lastOp.op = "drawVMobject"
     /\ (Len(mob.points) < 4 \/ Len(mob.points) % 4 # 0))
        => ctxCalls = <<>>

\* C14: for a primitive whose point count is a positive multiple of 4, a
\* subpath starts at index 0 and at exactly those indices n (a multiple of 4,
\* 4 <= n < length) where points n-1 and n differ by more than
\* 1e-6 + 1e-5 * |point n| on the first or on the second axis; every subpath
\* runs to the next such index or to the end, so its length is a positive
\* multiple of 4, and it gets one curve per 4 points. The 8-point list with a
\* 1e-7 gap at the seam is one subpath, the one with a 0.01 gap on the first
\* axis is two.
C14_SubpathSegmentation ==
    (/\ lastOp.op = "drawVMobject"
     /\ Len(mob.points) >= 4
     /\ Len(mob.points) % 4 = 0) =>
        LET pts == mob.points
            Fails(a, b) ==
                \E axis \in 1..2 :
                    Abs(a[axis] - b[axis])
                        > atol + (Abs(b[axis]) \div rtolInv)
            Seams == { n \in 4..(Len(pts) - 1) :
                         n % 4 = 0 /\ Fails(pts[n], pts[n + 1]) }
            moves == { c \in 1..Len(ctxCalls) : ctxCalls[c].call = "moveTo" }
            starts == { ctxCalls[c].start : c \in moves }
            NextSeam(s) ==
                IF \E n \in Seams : n > s
                THEN CHOOSE n \in Seams :
                         n > s /\ \A m \in Seams : m > s => n <= m
                ELSE Len(pts)
        IN  /\ starts = {0} \cup Seams
            /\ Cardinality(moves) = Cardinality(starts)
            /\ \A c \in 1..Len(ctxCalls) :
                   /\ ctxCalls[c].start \in starts
                   /\ ctxCalls[c].end = NextSeam(ctxCalls[c].start)
                   /\ ctxCalls[c].end - ctxCalls[c].start > 0
                   /\ (ctxCalls[c].end - ctxCalls[c].start) % 4 = 0
            /\ \A s \in starts :
                   Cardinality({ c \in 1..Len(ctxCalls) :
                                   /\ ctxCalls[c].call = "bezierCurveTo"
                                   /\ ctxCalls[c].start = s }) * 4
                       = NextSeam(s) - s
            /\ (/\ Len(pts) = 8
                /\ pts[4] = <<0, Scale>>
                /\ pts[5] = <<0, Scale + 1>>) => starts = {0}
            /\ (/\ Len(pts) = 8
                /\ pts[4] = <<0, Scale>>
                /\ pts[5] = <<Scale \div 100, Scale>>) => starts = {0, 4}

\* the 8-point list with the 0.01 gap on the first axis has been drawn as
\* two subpaths
C14_Witness ==
    /\ lastOp.op = "drawVMobject"
    /\ Len(mob.points) = 8
    /\ mob.points[4] = <<0, Scale>>
    /\ mob.points[5] = <<Scale \div 100, Scale>>
    /\ Cardinality({ c \in 1..Len(ctxCalls) : ctxCalls[c].call = "fill" }) = 2

\* C15: a subpath that is drawn gets closePath, right before its fill,
\* exactly when the Euclidean distance between its first and its last point
\* is strictly below 0.15, that is dx*dx + dy*dy < 0.15 * 0.15. A last point
\* 0.14 from the first closes the subpath; 0.15 or 0.16 away, or 0.11 away
\* on each axis, it stays open.
C15_ClosingHeuristic ==
    lastOp.op = "drawVMobject" =>
        \A f \in 1..Len(ctxCalls) :
            ctxCalls[f].call = "fill" =>
                LET first == mob.points[ctxCalls[f].start + 1]
                    last == mob.points[ctxCalls[f].end]
                    dx == Abs(first[1] - last[1])
                    dy == Abs(first[2] - last[2])
                    \* floor((dx*dx + dy*dy) / Kilo^2) for dx, dy < closeTol
                    SquaredInKilos ==
                        LET ex == dx \div Kilo
                            ey == dy \div Kilo
                            rx == dx % Kilo
                            ry == dy % Kilo
                        IN  ex * ex + ey * ey
                            + ((2 * (ex * rx + ey * ry)
                                + ((rx * rx + ry * ry) \div Kilo)) \div Kilo)
                    Below ==
                        IF dx >= closeTol \/ dy >= closeTol THEN FALSE
                        ELSE SquaredInKilos
                                 < (closeTol \div Kilo) * (closeTol \div Kilo)
                    closed == /\ f > 1
                              /\ ctxCalls[f - 1].call = "closePath"
                              /\ ctxCalls[f - 1].start = ctxCalls[f].start
                    unit == Scale \div 100
                IN  /\ closed <=> Below
                    /\ (dx = 14 * unit /\ dy = 0) => closed
                    /\ (dx = 15 * unit /\ dy = 0) => ~closed
                    /\ (dx = 16 * unit /\ dy = 0) => ~closed
                    /\ (dx = 11 * unit /\ dy = 11 * unit) => ~closed
                    /\ Cardinality({ c \in 1..Len(ctxCalls) :
                                       /\ ctxCalls[c].call = "closePath"
                                       /\ ctxCalls[c].start = ctxCalls[f].start })
                           <= 1

\* a subpath that starts at (0,0) and ends at (0.14,0) has been drawn and
\* closed
C15_Witness ==
    /\ lastOp.op = "drawVMobject"
    /\ \E f \in 2..Len(ctxCalls) :
           /\ ctxCalls[f].call = "fill"
           /\ ctxCalls[f - 1].call = "closePath"
           /\ mob.points[ctxCalls[f].start + 1] = <<0, 0>>
           /\ mob.points[ctxCalls[f].end] = <<14 * (Scale \div 100), 0>>

\* C16: with the completion marker received and the viewer playing, and the
\* controls left alone from then on, the loop being run fairly, playback
\* eventually stops on the last buffered frame; once stopped after the
\* marker the position and the stopped state stay; and no step, the seal
\* included, drops or changes a frame that is in the buffer.
C16_PlaysToCompletion ==
    /\ (complete /\ isPlaying)
           ~> (/\ ~isPlaying
               /\ (Len(frames) = 0 \/ currentFrame = Len(frames) - 1))
    /\ [][(complete /\ ~isPlaying)
              => (currentFrame' = currentFrame /\ ~isPlaying')]_vars
    /\ [][/\ Len(frames') >= Len(frames)
          /\ \A k \in 1..Len(frames) : frames'[k] = frames[k]
          /\ (lastOp'.op = "footer" => frames' = frames)]_vars

\* the loop has just ended playback on the last of several frames, short of
\* which the viewer was when the marker arrived
C16_Witness ==
    /\ lastOp = Op("loop", 1)
    /\ complete
    /\ ~isPlaying
    /\ Len(frames) >= 2
    /\ currentFrame = Len(frames) - 1

\* C17: a record that is in all_frames is never changed by a later step:
\* after every render, freeze_current_frame and scene_finished call each
\* record that was there before has the same time, frame_index, mobjects and
\* camera, and the list has only grown; hold frames are records added at the
\* end.
C17_RecordsImmutable ==
    [][/\ Len(all_frames') >= Len(all_frames)
       /\ \A k \in 1..Len(all_frames) : all_frames'[k] = all_frames[k]]_vars

\* C18: when the write of a frame unit raises inside render or
\* freeze_current_frame, the call ends there: the document gains no whole
\* unit for the failing frame and no completion marker, the callback log
\* gains nothing, and a freeze has made exactly the hold frames up to the
\* failing one and written whole units only for those before it.
C18_WriteFailureIsFatal ==
    [][lastOp'.op \in {"render_raised", "freeze_raised"} =>
           LET made == Len(all_frames') - Len(all_frames)
               failing == all_frames'[Len(all_frames')]
               Units(d, kind) ==
                   Cardinality({ i \in 1..Len(d) : d[i].kind = kind })
           IN  /\ made >= 1
               /\ lastOp'.op = "render_raised" => made = 1
               /\ Units(doc', "addFrame") = Units(doc, "addFrame") + made - 1
               /\ \A i \in 1..Len(doc') :
                      doc'[i].kind = "addFrame" => doc'[i].frame # failing
               /\ Units(doc', "footer") = Units(doc, "footer")
               /\ \A i \in 1..Len(doc) : doc'[i] = doc[i]
               /\ cbLog' = cbLog]_vars

\* a render with a callback registered has raised after one that went
\* through: two records, one unit, one callback
C18_Witness ==
    /\ on_frame_callback
    /\ lastOp.op = "render_raised"
    /\ Len(all_frames) = 2
    /\ Len(cbLog) = 1
    /\ Cardinality({ i \in 1..Len(doc) : doc[i].kind = "addFrame" }) = 1

\* C19: at any time at most one loop callback is pending with
\* requestAnimationFrame.
C19_OnePendingLoop ==
    pendingLoops <= 1

=============================================================================
